---- MODULE Spec2Model ----
(***************************************************************************)
(* A model of the recurring Globus transfer scripts:                       *)
(*   recurring_transfer/transfer_to_fortress/tar_and_transfer.py           *)
(*   recurring_transfer/nightly_transfer_no_overwrite.py                   *)
(*   recurring_transfer/monthly_sync.py, current_month_sync.py             *)
(*   recurring_transfer/nightly_transfer.py                                *)
(*                                                                         *)
(* Strings are sequences of tokens: a token is a maximal alphanumeric run  *)
(* or one of the separator characters "/", "_", ".".  Two strings are      *)
(* equal exactly when their token sequences are equal.                     *)
(* A datetime is the naive local datetime of Python, a record of its       *)
(* seven fields, compared field by field.                                  *)
(***************************************************************************)
EXTENDS Integers, Sequences, FiniteSets, TLC

VARIABLES
    fs,        \* the files under SOURCE_ROOT: file -> [mtime_ts, size]
    dirs,      \* the directories under SOURCE_ROOT: directory -> mtime_ts
    staging,   \* the files of STAGING_ROOT: name -> [content, complete, writer]
    run,       \* the locals of each invocation of main
    remote,    \* what submitted transfers of renamed files delivered
    probe      \* the arguments and result of a function applied on its own

vars == <<fs, dirs, staging, run, remote, probe>>

(***************************************************************************)
(* Bounds of the model.                                                    *)
(***************************************************************************)
\* the largest number of files in the scanned tree
MaxFiles == 3
\* the largest number of files whose getmtime raises OSError during a scan
MaxStatFail == 1

(***************************************************************************)
(* Strings and paths.                                                      *)
(***************************************************************************)
\* os.sep on the POSIX host
os_sep == "/"

\* str.replace(old, new) for one-character old and new
str_replace(s, old, new) ==
    [i \in 1..Len(s) |-> IF s[i] = old THEN new ELSE s[i]]

\* the elements of a sequence
Range(seq) == {seq[i] : i \in 1..Len(seq)}

\* posixpath.join(a, b)
posixpath_join(a, b) ==
    IF Len(b) > 0 /\ b[1] = "/" THEN b
    ELSE IF a = <<>> \/ a[Len(a)] = "/" THEN a \o b
    ELSE a \o <<"/">> \o b

\* posixpath.join(a, b, c)
posixpath_join3(a, b, c) == posixpath_join(posixpath_join(a, b), c)

\* index of the last "." of a file name, 0 when there is none; a leading dot
\* does not start an extension (os.path.splitext)
RECURSIVE LastDot(_, _)
LastDot(name, i) ==
    IF i <= 1 THEN 0
    ELSE IF name[i] = "." THEN i
    ELSE LastDot(name, i - 1)

\* os.path.splitext(f): <<name_part, ext_part>>
os_path_splitext(name) ==
    LET k == LastDot(name, Len(name))
    IN IF k = 0 THEN <<name, <<>> >>
       ELSE <<SubSeq(name, 1, k - 1), SubSeq(name, k, Len(name))>>

\* the configured path prefixes
GLOBUS_SOURCE_ROOT == <<"gsrc">>
GLOBUS_STAGING_ROOT == <<"gstage">>
DEST_ROOT == <<"dest">>

(***************************************************************************)
(* The scanned tree.  A file is [dir, name]: dir is the path of its parent *)
(* directory relative to SOURCE_ROOT (<<>> for SOURCE_ROOT itself).         *)
(***************************************************************************)
RootDir == <<>>
DirAB == <<"a", "/", "b">>
DirA_B == <<"a", "_", "b">>
DirRootFiles == <<"root", "_", "files">>
NameX == <<"x", ".", "txt">>
NameY == <<"y", ".", "txt">>

File(d, n) == [dir |-> d, name |-> n]

\* the candidate files, in the order a directory listing yields them
AllPaths ==
    << File(RootDir, NameX), File(DirAB, NameX), File(DirAB, NameY),
       File(DirA_B, NameX), File(DirRootFiles, NameX) >>

Paths == {AllPaths[i] : i \in 1..Len(AllPaths)}

\* os.path.relpath(folder_abs_path, SOURCE_ROOT)
os_path_relpath_dir(d) == IF d = RootDir THEN <<".">> ELSE d

\* os.path.relpath(file_path, SOURCE_ROOT)
os_path_relpath(f) ==
    IF f.dir = RootDir THEN f.name ELSE f.dir \o <<os_sep>> \o f.name

\* os.path.dirname(rel_path) of a file's relative path
os_path_dirname(f) == f.dir

\* the files of a set, in listing order
ListOf(S) == SelectSeq(AllPaths, LAMBDA f : f \in S)

(***************************************************************************)
(* Dates and datetimes.                                                    *)
(***************************************************************************)
Date(y, m, d) == [year |-> y, month |-> m, day |-> d]

DateTime(y, mo, d, h, mi, s, us) ==
    [year |-> y, month |-> mo, day |-> d, hour |-> h, minute |-> mi,
     second |-> s, microsecond |-> us]

IsLeap(y) == (y % 4 = 0 /\ y % 100 # 0) \/ y % 400 = 0

DaysInMonth(y, m) ==
    IF m = 2 THEN (IF IsLeap(y) THEN 29 ELSE 28)
    ELSE IF m \in {4, 6, 9, 11} THEN 30 ELSE 31

\* date - timedelta(days=1)
date_minus_one_day(dt) ==
    IF dt.day > 1 THEN Date(dt.year, dt.month, dt.day - 1)
    ELSE IF dt.month > 1
         THEN Date(dt.year, dt.month - 1, DaysInMonth(dt.year, dt.month - 1))
         ELSE Date(dt.year - 1, 12, 31)

\* date + one day (used to enumerate inputs)
date_plus_one_day(dt) ==
    IF dt.day < DaysInMonth(dt.year, dt.month)
    THEN Date(dt.year, dt.month, dt.day + 1)
    ELSE IF dt.month < 12 THEN Date(dt.year, dt.month + 1, 1)
         ELSE Date(dt.year + 1, 1, 1)

\* datetime.date()
date_of(t) == Date(t.year, t.month, t.day)

\* a last time of the day that leaves out its final second's fraction
time_max_whole_second == [hour |-> 23, minute |-> 59, second |-> 59, microsecond |-> 0]

\* datetime.time.min and datetime.time.max
time_min == [hour |-> 0, minute |-> 0, second |-> 0, microsecond |-> 0]
time_max == [hour |-> 23, minute |-> 59, second |-> 59, microsecond |-> 999999]

\* datetime.combine(date, time)
datetime_combine(d, t) ==
    DateTime(d.year, d.month, d.day, t.hour, t.minute, t.second, t.microsecond)

\* t - timedelta(microseconds=1)
minus_one_microsecond(t) ==
    IF t.microsecond > 0 THEN [t EXCEPT !.microsecond = @ - 1]
    ELSE IF t.second > 0 THEN [t EXCEPT !.second = @ - 1, !.microsecond = 999999]
    ELSE IF t.minute > 0
         THEN [t EXCEPT !.minute = @ - 1, !.second = 59, !.microsecond = 999999]
    ELSE IF t.hour > 0
         THEN [t EXCEPT !.hour = @ - 1, !.minute = 59, !.second = 59,
                        !.microsecond = 999999]
    ELSE datetime_combine(date_minus_one_day(date_of(t)), time_max)

\* t + timedelta(microseconds=1) (used to enumerate inputs)
plus_one_microsecond(t) ==
    IF t.microsecond < 999999 THEN [t EXCEPT !.microsecond = @ + 1]
    ELSE IF t.second < 59 THEN [t EXCEPT !.second = @ + 1, !.microsecond = 0]
    ELSE IF t.minute < 59
         THEN [t EXCEPT !.minute = @ + 1, !.second = 0, !.microsecond = 0]
    ELSE IF t.hour < 23
         THEN [t EXCEPT !.hour = @ + 1, !.minute = 0, !.second = 0,
                        !.microsecond = 0]
    ELSE datetime_combine(date_plus_one_day(date_of(t)), time_min)

DtKey(t) ==
    <<t.year, t.month, t.day, t.hour, t.minute, t.second, t.microsecond>>

RECURSIVE LexLess(_, _, _)
LexLess(a, b, i) ==
    IF i > Len(a) THEN FALSE
    ELSE IF a[i] # b[i] THEN a[i] < b[i]
    ELSE LexLess(a, b, i + 1)

\* a < b and a <= b on datetimes
dt_lt(a, b) == LexLess(DtKey(a), DtKey(b), 1)
dt_le(a, b) == a = b \/ dt_lt(a, b)

\* a window that leaves its end out: start_window <= mtime < end_window
in_window_half_open(start_window, mtime, end_window) ==
    dt_le(start_window, mtime) /\ dt_lt(mtime, end_window)

\* start_window <= mtime <= end_window
in_window(start_window, mtime, end_window) ==
    dt_le(start_window, mtime) /\ dt_le(mtime, end_window)

\* the "yesterday" window: <<start_window, end_window>>
yesterday_window(now) ==
    LET yesterday == date_minus_one_day(date_of(now))
    IN <<datetime_combine(yesterday, time_min),
         datetime_combine(yesterday, time_max)>>

\* now.replace(day=1, hour=0, minute=0, second=0, microsecond=0)
first_of_month(t) == DateTime(t.year, t.month, 1, 0, 0, 0, 0)

\* the "previous month" window of monthly_sync.py
previous_month_window(now) ==
    LET first_of_this_month == first_of_month(now)
        end_window == minus_one_microsecond(first_of_this_month)
    IN <<first_of_month(end_window), end_window>>

\* the "current month" window of current_month_sync.py
current_month_window(now) == <<first_of_month(now), now>>

\* two decimal digits
Pad2(n) == IF n < 10 THEN "0" \o ToString(n) ELSE ToString(n)

\* mtime.strftime("%Y%m%d_%H%M%S")
strftime(t) ==
    <<ToString(t.year) \o Pad2(t.month) \o Pad2(t.day), "_",
      Pad2(t.hour) \o Pad2(t.minute) \o Pad2(t.second)>>

\* os.path.getmtime gives a point in time.  A point in time is written as the
\* local wall-clock reading at it and, for a reading the local zone shows twice
\* (the hour repeated when daylight saving time ends), which of the two it is:
\* fold 0 the first, fold 1 the second, one hour later
Timestamp(wall, fold) == [wall |-> wall, fold |-> fold]

\* the wall-clock readings the local zone shows twice: 3 November 2024, from
\* 01:00:00 to 01:59:59.999999 (the zones of the United States that keep
\* daylight saving time)
Ambiguous(wall) ==
    wall.year = 2024 /\ wall.month = 11 /\ wall.day = 3 /\ wall.hour = 1

\* datetime.fromtimestamp(ts): the naive local datetime.  Its comparisons and
\* its strftime do not look at fold
datetime_fromtimestamp(ts) == ts.wall

\* datetime.fromtimestamp(os.path.getmtime(path)) of a file and of a directory
file_mtime(f) == datetime_fromtimestamp(fs[f].mtime_ts)
dir_mtime(d) == datetime_fromtimestamp(dirs[d])

(***************************************************************************)
(* The state of one run (one invocation of a script's main).               *)
(***************************************************************************)
Runs == {1, 2}

\* Python's None (and any other falsy path)
None == <<>>

\* the value of a run's locals before main has assigned them
FreshRun(script, dry_run, now) ==
    [script |-> script, dry_run |-> dry_run, now |-> now, pc |-> "config",
     start_window |-> now, end_window |-> now,
     modified_groups |-> <<>>, pending |-> {},
     transfer_data |-> <<>>, files_queued |-> 0, tars_created |-> 0,
     files_added |-> 0, log |-> {}, tar_errors |-> 0, exit |-> "running",
     submit_calls |-> 0, submitted |-> <<>>, task |-> FALSE,
     scanned |-> FALSE, stat_failed |-> {}, dropped |-> {}]

\* a run that is never started
OffRun(now) == [FreshRun("none", FALSE, now) EXCEPT !.pc = "off"]

\* logger.info / logger.warning / logger.error
Logged(rec, level, msg, arg) == rec.log \cup {<<level, msg, arg>>}

\* main returns (the process ends with exit status 0)
Return(rec) == [rec EXCEPT !.pc = "done", !.exit = "returned"]

\* an exception after which main starts over with the scan
Raise_and_rescan(rec) == [rec EXCEPT !.pc = "scan", !.exit = "raised"]

\* an exception leaves main uncaught (traceback, exit status 1)
Raise(rec) == [rec EXCEPT !.pc = "done", !.exit = "raised"]

(***************************************************************************)
(* tar_and_transfer.py                                                     *)
(***************************************************************************)
SMALL_FILE_THRESHOLD == 50 * 1024 * 1024

\* staging with file `name` (re)written
WriteStaged(st, name, entry) ==
    [n \in DOMAIN st \cup {name} |-> IF n = name THEN entry ELSE st[n]]

\* create_tarball(staging_root, rel_path, file_list) under one outcome of the I/O:
\* <<"ok", 0>>, <<"open_error", 0>> (tarfile.open raises) or <<"add_error", k>>
\* (tar.add raises after k files).  ret is the tarball's file name in
\* STAGING_ROOT, or None; printed counts the "Error creating tar" lines.
safe_name(rel_path) == str_replace(rel_path, os_sep, "_") \o <<".", "tar">>

\* a create_tarball that returns the path also when the write failed
create_tarball_path_on_error(st, r, rel_path, file_list, outcome) ==
    LET name == safe_name(rel_path)
    IN IF outcome = <<"ok", 0>>
       THEN [ret |-> name, printed |-> 0,
             staging |-> WriteStaged(st, name,
                 [content |-> Range(file_list), complete |-> TRUE, writer |-> r])]
       ELSE [ret |-> name, printed |-> 1, staging |-> st]

create_tarball(st, r, rel_path, file_list, outcome) ==
    LET name == safe_name(rel_path)
    IN IF outcome = <<"ok", 0>>
       THEN [ret |-> name, printed |-> 0,
             staging |-> WriteStaged(st, name,
                 [content |-> Range(file_list), complete |-> TRUE, writer |-> r])]
       ELSE IF outcome = <<"open_error", 0>>
       THEN [ret |-> None, printed |-> 1, staging |-> st]
       ELSE [ret |-> None, printed |-> 1,
             staging |-> WriteStaged(st, name,
                 [content |-> {file_list[i] : i \in 1..outcome[2]},
                  complete |-> FALSE, writer |-> r])]

\* the outcomes of the I/O of create_tarball on a list of n files
TarOutcomes(n) ==
    {<<"ok", 0>>, <<"open_error", 0>>} \cup {<<"add_error", k>> : k \in 0..(n - 1)}

\* sum(os.path.getsize(f) for f in file_list)
RECURSIVE total_size(_, _)
total_size(file_list, i) ==
    IF i > Len(file_list) THEN 0
    ELSE fs[file_list[i]].size + total_size(file_list, i + 1)

\* a threshold test that also tars a group whose mean equals the threshold
is_small_or_equal(total, count) ==
    IF count = 0 THEN 0 <= SMALL_FILE_THRESHOLD
    ELSE total <= SMALL_FILE_THRESHOLD * count

\* avg_size < SMALL_FILE_THRESHOLD, where avg_size = total / count is the float
\* quotient (0 for an empty list).  The quotient of two integers is correctly
\* rounded, so for totals below 2^53 and counts below 2^28 the comparison agrees
\* with the exact one, total < SMALL_FILE_THRESHOLD * count.
is_small(total, count) ==
    IF count = 0 THEN 0 < SMALL_FILE_THRESHOLD
    ELSE total < SMALL_FILE_THRESHOLD * count

\* a branch taken on the group's total bytes, whatever the number of files
strategy_by_total(total, count) ==
    IF total < SMALL_FILE_THRESHOLD THEN "ARCHIVE" ELSE "RAW"

\* the branch main takes for a group: tar it, or transfer its files raw
strategy(total, count) ==
    IF is_small(total, count) THEN "ARCHIVE" ELSE "RAW"

\* tar_name_base = "root_files" if rel_path == '.' else rel_path
tar_name_base(rel_path) ==
    IF rel_path = <<".">> THEN <<"root", "_", "files">> ELSE rel_path

\* the item added for a tarball: (g_source, g_dest)
tar_item(rel_tar_name, base) ==
    [source |-> posixpath_join(GLOBUS_STAGING_ROOT, rel_tar_name),
     dest |-> posixpath_join(DEST_ROOT, base \o <<".", "tar">>)]

\* the item added for a raw file: (g_source, g_dest)
raw_item(f) ==
    [source |-> posixpath_join(GLOBUS_SOURCE_ROOT, os_path_relpath(f)),
     dest |-> posixpath_join(DEST_ROOT, os_path_relpath(f))]

\* the files the scan selects: every file whose mtime can be read and lies in
\* the window
Selected(files, skip, start_window, end_window) ==
    {f \in files \ skip : in_window(start_window, file_mtime(f), end_window)}

\* main, lines 76-107: the configuration is read and the window is derived
WindowOf(script, now) ==
    IF script = "monthly_sync" THEN previous_month_window(now)
    ELSE IF script = "current_month_sync" THEN current_month_window(now)
    ELSE yesterday_window(now)

\* the error logged for a configuration that cannot be used.  tar_and_transfer
\* does not test for the file: config.read skips a missing file and the first
\* lookup raises KeyError
ConfigError(script, cfg) ==
    IF script = "tar_and_transfer" THEN "Missing config"
    ELSE IF cfg = "no_file" THEN "Configuration file not found"
    ELSE "Missing config key"

LoadConfig(r) ==
    /\ run[r].pc = "config"
    /\ \E cfg \in {"ok", "no_file", "no_key"} :
          LET rec == run[r]
              w == WindowOf(rec.script, rec.now)
          IN run' = [run EXCEPT ![r] =
                IF cfg = "ok"
                THEN [rec EXCEPT !.start_window = w[1], !.end_window = w[2],
                                 !.pc = IF rec.script = "tar_and_transfer"
                                        THEN "scan" ELSE "auth"]
                ELSE Return([rec EXCEPT !.log =
                        Logged(rec, "error", ConfigError(rec.script, cfg), <<>>)])]
    /\ UNCHANGED <<fs, dirs, staging, remote, probe>>

\* main, lines 109-125: the walk groups the selected files by parent directory
ScanAndGroup(r) ==
    /\ run[r].pc = "scan"
    /\ run[r].script = "tar_and_transfer"
    /\ \E skip \in SUBSET DOMAIN fs :
          /\ Cardinality(skip) <= MaxStatFail
          /\ LET rec == run[r]
                 sel == Selected(DOMAIN fs, skip, rec.start_window, rec.end_window)
                 roots == {f.dir : f \in sel}
                 groups == [d \in roots |-> ListOf({f \in sel : f.dir = d})]
                 scanned == [rec EXCEPT !.modified_groups = groups,
                                        !.pending = roots,
                                        !.scanned = TRUE,
                                        !.stat_failed = skip]
             IN run' = [run EXCEPT ![r] =
                   IF roots = {}
                   THEN Return([scanned EXCEPT !.log =
                           Logged(rec, "info", "No modified files found.", <<>>)])
                   ELSE [scanned EXCEPT !.pc = "prep"]]
    /\ UNCHANGED <<fs, dirs, staging, remote, probe>>

\* main, lines 127-138: the transfer client and the empty TransferData
PrepTransfer(r) ==
    /\ run[r].pc = "prep"
    /\ \E ok \in BOOLEAN :
          LET rec == run[r]
          IN run' = [run EXCEPT ![r] =
                IF ok THEN [rec EXCEPT !.transfer_data = <<>>, !.pc = "groups"]
                ELSE Return([rec EXCEPT !.log =
                        Logged(rec, "error", "Globus Init Failed", <<>>)])]
    /\ UNCHANGED <<fs, dirs, staging, remote, probe>>

\* os.walk is top-down: SOURCE_ROOT's own group is inserted first; the order of
\* sibling directories is the listing's
NextGroups(pending) ==
    IF RootDir \in pending THEN {RootDir} ELSE pending

\* the items a RAW group adds, in file_list order
RECURSIVE raw_items(_, _)
raw_items(file_list, i) ==
    IF i > Len(file_list) THEN <<>>
    ELSE <<raw_item(file_list[i])>> \o raw_items(file_list, i + 1)

\* main, lines 144-178: one iteration of the loop over modified_groups
ProcessGroup(r) ==
    /\ run[r].pc = "groups"
    /\ run[r].pending # {}
    /\ \E folder \in NextGroups(run[r].pending) :
          LET rec == run[r]
              file_list == rec.modified_groups[folder]
              rel_path == os_path_relpath_dir(folder)
              base == tar_name_base(rel_path)
              total == total_size(file_list, 1)
              left == rec.pending \ {folder}
              next == [rec EXCEPT !.pending = left,
                                  !.pc = IF left = {} THEN "submit" ELSE "groups"]
          IN \/ \* os.path.getsize raises OSError: nothing catches it
                /\ run' = [run EXCEPT ![r] = Raise(rec)]
                /\ UNCHANGED staging
             \/ /\ strategy(total, Len(file_list)) = "ARCHIVE"
                /\ \E outcome \in TarOutcomes(Len(file_list)) :
                      LET res == create_tarball(staging, r, base, file_list, outcome)
                          tarring == [next EXCEPT
                                        !.log = Logged(rec, "info", "Tarring", rel_path),
                                        !.tar_errors = @ + res.printed,
                                        !.dropped = IF outcome = <<"ok", 0>> THEN @
                                                    ELSE @ \cup {folder}]
                      IN /\ staging' = res.staging
                         /\ run' = [run EXCEPT ![r] =
                               IF res.ret # None
                               THEN [tarring EXCEPT
                                       !.transfer_data =
                                           Append(@, tar_item(res.ret, base)),
                                       !.tars_created = @ + 1,
                                       !.files_queued = @ + 1]
                               ELSE tarring]
             \/ /\ strategy(total, Len(file_list)) = "RAW"
                /\ run' = [run EXCEPT ![r] =
                      [next EXCEPT
                         !.log = Logged(rec, "info", "Transferring raw", rel_path),
                         !.transfer_data = @ \o raw_items(file_list, 1),
                         !.files_queued = @ + Len(file_list)]]
                /\ UNCHANGED staging
    /\ UNCHANGED <<fs, dirs, remote, probe>>

\* a test that lets an empty manifest through
should_submit_always(count) == count >= 0

\* if files_queued > 0 (total_added, items_added in the other scripts)
should_submit(count) == count > 0

\* main, lines 180-188: the submission
SubmitTar(r) ==
    /\ run[r].pc = "submit"
    /\ run[r].script = "tar_and_transfer"
    /\ LET rec == run[r]
       IN IF should_submit(rec.files_queued)
          THEN \E ok \in BOOLEAN :
                 run' = [run EXCEPT ![r] =
                    IF ok
                    THEN Return([rec EXCEPT
                            !.submit_calls = @ + 1,
                            !.submitted = rec.transfer_data,
                            !.task = TRUE,
                            !.log = Logged(rec, "info", "Task Submitted", <<>>)
                               \cup (IF rec.tars_created > 0
                                     THEN {<<"warning", "Created tarballs", <<>> >>}
                                     ELSE {})])
                    ELSE Raise([rec EXCEPT !.submit_calls = @ + 1,
                                           !.submitted = rec.transfer_data])]
          ELSE run' = [run EXCEPT ![r] =
                  Return([rec EXCEPT !.log =
                     Logged(rec, "info", "Nothing to transfer.", <<>>)])]
    /\ UNCHANGED <<fs, dirs, staging, remote, probe>>

(***************************************************************************)
(* nightly_transfer_no_overwrite.py, monthly_sync.py, current_month_sync.py *)
(***************************************************************************)
SyncScripts == {"nightly_transfer_no_overwrite", "monthly_sync", "current_month_sync"}

\* main: get_authorizer and the TransferClient; any exception is logged
Authorize(r) ==
    /\ run[r].pc = "auth"
    /\ \E ok \in BOOLEAN :
          LET rec == run[r]
          IN run' = [run EXCEPT ![r] =
                IF ok THEN [rec EXCEPT !.transfer_data = <<>>, !.pc = "scan"]
                ELSE Return([rec EXCEPT !.log =
                        Logged(rec, "error", "Auth failed", <<>>)])]
    /\ UNCHANGED <<fs, dirs, staging, remote, probe>>

\* new_filename = f"{name_part}_{timestamp_str}{ext_part}"
new_filename(f, mtime) ==
    LET parts == os_path_splitext(f.name)
    IN parts[1] \o <<"_">> \o strftime(mtime) \o parts[2]

\* the pair (g_source, g_dest) of a selected file
sync_item(f, mtime) ==
    [source |-> posixpath_join(GLOBUS_SOURCE_ROOT, os_path_relpath(f)),
     dest |-> posixpath_join3(DEST_ROOT, os_path_dirname(f), new_filename(f, mtime))]

\* what the dry run logs for a selected file
dry_run_line(script, f, mtime) ==
    IF script = "nightly_transfer_no_overwrite"
    THEN <<os_path_relpath(f), new_filename(f, mtime)>>
    ELSE <<sync_item(f, mtime).source, sync_item(f, mtime).dest>>

\* if dry_run: logger.info(...) else: transfer_data.add_item(g_source, g_dest)
\* an add_item that does not look at dry_run
queued_always(dry_run, transfer_data, items) == transfer_data \o items

queued(dry_run, transfer_data, items) ==
    IF dry_run THEN transfer_data ELSE transfer_data \o items

dry_run_log(dry_run, log, lines) ==
    IF dry_run THEN log \cup lines ELSE log

RECURSIVE sync_items(_, _)
sync_items(file_list, i) ==
    IF i > Len(file_list) THEN <<>>
    ELSE <<sync_item(file_list[i], file_mtime(file_list[i]))>>
            \o sync_items(file_list, i + 1)

\* add_files_with_timestamps: the whole walk.  A file whose getmtime raises
\* OSError is passed over (monthly_sync and current_month_sync log a warning)
add_files_with_timestamps(r) ==
    /\ run[r].pc = "scan"
    /\ run[r].script \in SyncScripts
    /\ \E skip \in SUBSET DOMAIN fs :
          /\ Cardinality(skip) <= MaxStatFail
          /\ LET rec == run[r]
                 sel == Selected(DOMAIN fs, skip, rec.start_window, rec.end_window)
                 warned == IF rec.script = "nightly_transfer_no_overwrite" THEN {}
                           ELSE {<<"warning", "Could not process", os_path_relpath(f)>> :
                                   f \in skip}
                 lines == {<<"info", "[DRY RUN]",
                             dry_run_line(rec.script, f, file_mtime(f))>> : f \in sel}
             IN run' = [run EXCEPT ![r] =
                   [rec EXCEPT
                      !.scanned = TRUE,
                      !.stat_failed = skip,
                      !.files_added = Cardinality(sel),
                      !.log = dry_run_log(rec.dry_run, rec.log \cup warned, lines),
                      !.transfer_data =
                          queued(rec.dry_run, @, sync_items(ListOf(sel), 1)),
                      !.pc = "submit"]]
    /\ UNCHANGED <<fs, dirs, staging, remote, probe>>

\* the file a raw item's source names
SourceFile(item) ==
    CHOOSE f \in DOMAIN fs :
       item.source = posixpath_join(GLOBUS_SOURCE_ROOT, os_path_relpath(f))

\* what a submitted transfer delivers: each item's destination receives the
\* version (the mtime) its source file has
Delivered(items) ==
    {[dest |-> item.dest, source |-> item.source,
      mtime_ts |-> fs[SourceFile(item)].mtime_ts] : item \in Range(items)}

\* main: the submission of the three scripts; nothing catches an exception of
\* submit_transfer
SubmitSync(r) ==
    /\ run[r].pc = "submit"
    /\ run[r].script \in SyncScripts
    /\ LET rec == run[r]
       IN IF should_submit(rec.files_added)
          THEN IF rec.dry_run
               THEN /\ run' = [run EXCEPT ![r] =
                          Return([rec EXCEPT !.log =
                             Logged(rec, "info", "Dry run complete", <<>>)])]
                    /\ UNCHANGED remote
               ELSE \E ok \in BOOLEAN :
                      /\ run' = [run EXCEPT ![r] =
                            IF ok
                            THEN Return([rec EXCEPT
                                    !.submit_calls = @ + 1,
                                    !.submitted = rec.transfer_data,
                                    !.task = TRUE,
                                    !.log = Logged(rec, "info", "Task submitted", <<>>)])
                            ELSE Raise([rec EXCEPT
                                    !.submit_calls = @ + 1,
                                    !.submitted = rec.transfer_data])]
                      /\ remote' = IF ok THEN remote \cup Delivered(rec.transfer_data)
                                   ELSE remote
          ELSE /\ run' = [run EXCEPT ![r] =
                     Return([rec EXCEPT !.log =
                        Logged(rec, "info", "No files found", <<>>)])]
               /\ UNCHANGED remote
    /\ UNCHANGED <<fs, dirs, staging, probe>>

(***************************************************************************)
(* nightly_transfer.py: the directories modified yesterday, recursively    *)
(***************************************************************************)
\* the item added for a directory: (g_source, g_dest), recursive=True
dir_item(d) ==
    [source |-> posixpath_join(GLOBUS_SOURCE_ROOT, d),
     dest |-> posixpath_join(DEST_ROOT, d)]

\* the directories of the tree, in walk order
AllDirs == << <<"a">>, DirAB, DirA_B, DirRootFiles >>

RECURSIVE dir_items(_, _)
dir_items(dir_list, i) ==
    IF i > Len(dir_list) THEN <<>>
    ELSE <<dir_item(dir_list[i])>> \o dir_items(dir_list, i + 1)

\* main, lines 119-137: the walk over the directories
ScanDirs(r) ==
    /\ run[r].pc = "scan"
    /\ run[r].script = "nightly_transfer"
    /\ \E skip \in SUBSET DOMAIN dirs :
          /\ Cardinality(skip) <= MaxStatFail
          /\ LET rec == run[r]
                 sel == {d \in DOMAIN dirs \ skip :
                           in_window(rec.start_window, dir_mtime(d), rec.end_window)}
             IN run' = [run EXCEPT ![r] =
                   [rec EXCEPT
                      !.scanned = TRUE,
                      !.stat_failed = skip,
                      !.files_added = Cardinality(sel),
                      !.log = rec.log \cup {<<"info", "Queued for transfer", d>> :
                                              d \in sel},
                      !.transfer_data =
                          @ \o dir_items(SelectSeq(AllDirs, LAMBDA d : d \in sel), 1),
                      !.pc = "submit"]]
    /\ UNCHANGED <<fs, dirs, staging, remote, probe>>

\* main, lines 139-147: the submission.  A TransferAPIError is caught and logged;
\* any other exception of submit_transfer leaves main
SubmitNightly(r) ==
    /\ run[r].pc = "submit"
    /\ run[r].script = "nightly_transfer"
    /\ LET rec == run[r]
       IN IF should_submit(rec.files_added)
          THEN \E outcome \in {"ok", "TransferAPIError", "other"} :
                 LET called == [rec EXCEPT !.submit_calls = @ + 1,
                                           !.submitted = rec.transfer_data]
                 IN run' = [run EXCEPT ![r] =
                       IF outcome = "ok"
                       THEN Return([called EXCEPT
                               !.task = TRUE,
                               !.log = Logged(rec, "info", "Task submitted", <<>>)])
                       ELSE IF outcome = "TransferAPIError"
                       THEN Return([called EXCEPT !.log =
                               Logged(rec, "error", "Submission Failed", <<>>)])
                       ELSE Raise(called)]
          ELSE run' = [run EXCEPT ![r] =
                  Return([rec EXCEPT !.log =
                     Logged(rec, "info", "Sync skipped", <<>>)])]
    /\ UNCHANGED <<fs, dirs, staging, remote, probe>>

(***************************************************************************)
(* Inputs.                                                                 *)
(***************************************************************************)
\* the run date: 1 March 2024, 02:00 (yesterday is the leap day)
Now1 == DateTime(2024, 3, 1, 2, 0, 0, 0)

\* the mtimes at and next to the ends of a window
Around(w) ==
    {minus_one_microsecond(w[1]), w[1], w[2], plus_one_microsecond(w[2])}

\* the file sizes: 10 KB, the threshold, 200 MB
Sizes == {10240, SMALL_FILE_THRESHOLD, 209715200}

\* the trees of at most MaxFiles files
Trees(mtimes, sizes) ==
    UNION {[S -> [mtime_ts : {Timestamp(w, 0) : w \in mtimes}, size : sizes]] :
             S \in {S \in SUBSET Paths : Cardinality(S) <= MaxFiles}}

\* the directories of the tree with their mtimes
DirTrees(mtimes) ==
    UNION {[S -> {Timestamp(w, 0) : w \in mtimes}] :
             S \in {S \in SUBSET {AllDirs[i] : i \in 1..Len(AllDirs)} :
                      Cardinality(S) <= MaxFiles}}

Scripts == SyncScripts \cup {"tar_and_transfer", "nightly_transfer"}

\* one run of one script over one tree.  Only tar_and_transfer reads file sizes
\* and only nightly_transfer reads directory mtimes
InitSingle(script, dry_run) ==
    /\ fs \in Trees(Around(WindowOf(script, Now1)),
                    IF script = "tar_and_transfer" THEN Sizes ELSE {10240})
    /\ dirs \in IF script = "nightly_transfer"
                THEN DirTrees(Around(WindowOf(script, Now1)))
                ELSE {<<>>}
    /\ script = "nightly_transfer" => fs = <<>>
    /\ staging = <<>>
    /\ remote = {}
    /\ probe = <<>>
    /\ run = [r \in Runs |->
                IF r = 1 THEN FreshRun(script, dry_run, Now1) ELSE OffRun(Now1)]

Init ==
    \E script \in Scripts, dry_run \in BOOLEAN :
       /\ dry_run => script \in SyncScripts
       /\ InitSingle(script, dry_run)

Next ==
    \E r \in Runs :
       \/ LoadConfig(r)
       \/ ScanAndGroup(r)
       \/ PrepTransfer(r)
       \/ ProcessGroup(r)
       \/ SubmitTar(r)
       \/ Authorize(r)
       \/ add_files_with_timestamps(r)
       \/ SubmitSync(r)
       \/ ScanDirs(r)
       \/ SubmitNightly(r)

Spec == Init /\ [][Next]_vars

(***************************************************************************)
(* The classification of a group on its own: the branch main takes for a   *)
(* group of `count` files of `total` bytes.                                *)
(***************************************************************************)
\* the largest number of files of a classified group
MaxCount == 8
\* the totals tried lie within MaxDelta bytes of count * SMALL_FILE_THRESHOLD
MaxDelta == 4

Totals(count) ==
    {count * SMALL_FILE_THRESHOLD + d : d \in (0 - MaxDelta)..MaxDelta}
       \cup {count * (SMALL_FILE_THRESHOLD - 1), count * 10240}

NoRuns == [r \in Runs |-> OffRun(Now1)]

InitClassify ==
    /\ fs = <<>> /\ dirs = <<>> /\ staging = <<>> /\ remote = {}
    /\ run = NoRuns
    /\ \E count \in 1..MaxCount :
          \E total \in Totals(count) :
             probe = [count |-> count, total |-> total, decision |-> "none"]

Classify ==
    /\ probe.decision = "none"
    /\ probe' = [probe EXCEPT !.decision = strategy(probe.total, probe.count)]
    /\ UNCHANGED <<fs, dirs, staging, run, remote>>

SpecClassify == InitClassify /\ [][Classify]_vars

(***************************************************************************)
(* Two runs of tar_and_transfer.py that share STAGING_ROOT: the run of     *)
(* 1 March and the run of 2 March 2024, in any interleaving.               *)
(***************************************************************************)
\* the largest number of files in the tree the two runs scan
MaxSharedFiles == 2

\* the second run date: 2 March 2024, 02:00
Now2 == DateTime(2024, 3, 2, 2, 0, 0, 0)

\* noon of the day each run looks at
SharedMtimes == {DateTime(2024, 2, 29, 12, 0, 0, 0), DateTime(2024, 3, 1, 12, 0, 0, 0)}

InitTwoRuns ==
    /\ fs \in UNION {[S -> [mtime_ts : {Timestamp(w, 0) : w \in SharedMtimes},
                            size : {10240}]] :
                       S \in {S \in SUBSET Paths : Cardinality(S) <= MaxSharedFiles}}
    /\ dirs = <<>> /\ staging = <<>> /\ remote = {} /\ probe = <<>>
    /\ run = [r \in Runs |->
                FreshRun("tar_and_transfer", FALSE, IF r = 1 THEN Now1 ELSE Now2)]

NextTwoRuns ==
    \E r \in Runs :
       \/ LoadConfig(r)
       \/ ScanAndGroup(r)
       \/ PrepTransfer(r)
       \/ ProcessGroup(r)
       \/ SubmitTar(r)

SpecTwoRuns == InitTwoRuns /\ [][NextTwoRuns]_vars

(***************************************************************************)
(* A series of two runs of one of the renaming scripts over a tree whose   *)
(* files are modified in the meantime, on the day daylight saving time     *)
(* ends.                                                                   *)
(***************************************************************************)
\* the largest number of files in the tree the series scans
MaxSeriesFiles == 2

SeriesPaths == {AllPaths[1], AllPaths[2]}

\* a wall-clock reading of 3 November 2024
SeriesWall(h, mi, s, us) == DateTime(2024, 11, 3, h, mi, s, us)

\* the points in time a file of the series is modified at: 01:30:00, half a
\* second later, a second later (before the clocks go back), and 01:30:00 again
\* an hour later (after the clocks went back)
SeriesTimestamps ==
    {Timestamp(SeriesWall(1, 30, 0, 0), 0), Timestamp(SeriesWall(1, 30, 0, 500000), 0),
     Timestamp(SeriesWall(1, 30, 1, 0), 0), Timestamp(SeriesWall(1, 30, 0, 0), 1)}

\* a is an earlier point in time than b
ts_lt(a, b) ==
    IF Ambiguous(a.wall) /\ Ambiguous(b.wall) /\ a.fold # b.fold
    THEN a.fold < b.fold
    ELSE dt_lt(a.wall, b.wall)

\* datetime.now() of the two runs of a script, each with the 3 November (or
\* its part until now) as its window
SeriesNow(script) ==
    IF script = "nightly_transfer_no_overwrite"
    THEN <<DateTime(2024, 11, 4, 2, 0, 0, 0), DateTime(2024, 11, 4, 3, 0, 0, 0)>>
    ELSE IF script = "monthly_sync"
    THEN <<DateTime(2024, 12, 1, 2, 0, 0, 0), DateTime(2024, 12, 2, 2, 0, 0, 0)>>
    ELSE <<SeriesWall(1, 45, 0, 0), SeriesWall(3, 0, 0, 0)>>

InitSeries ==
    /\ fs \in UNION {[S -> [mtime_ts : SeriesTimestamps, size : {10240}]] :
                       S \in {S \in SUBSET SeriesPaths :
                                S # {} /\ Cardinality(S) <= MaxSeriesFiles}}
    /\ dirs = <<>> /\ staging = <<>> /\ remote = {} /\ probe = <<>>
    /\ \E script \in SyncScripts :
          run = [r \in Runs |->
                   IF r = 1 THEN FreshRun(script, FALSE, SeriesNow(script)[1])
                   ELSE [FreshRun(script, FALSE, SeriesNow(script)[2])
                            EXCEPT !.pc = "waiting"]]

\* the scheduler starts the next run when the one before it has ended
StartRun(r) ==
    /\ run[r].pc = "waiting"
    /\ r > 1 /\ run[r - 1].pc = "done"
    /\ run' = [run EXCEPT ![r].pc = "config"]
    /\ UNCHANGED <<fs, dirs, staging, remote, probe>>

\* a user writes a file of the tree again, at a later point in time (and not
\* while a run holds a manifest it has built and not yet submitted)
Modify(f) ==
    /\ f \in DOMAIN fs
    /\ \A r \in Runs : run[r].pc # "submit"
    /\ \E t \in SeriesTimestamps :
          /\ ts_lt(fs[f].mtime_ts, t)
          /\ fs' = [fs EXCEPT ![f].mtime_ts = t]
    /\ UNCHANGED <<dirs, staging, run, remote, probe>>

NextSeries ==
    \/ \E r \in Runs :
          \/ StartRun(r)
          \/ LoadConfig(r)
          \/ Authorize(r)
          \/ add_files_with_timestamps(r)
          \/ SubmitSync(r)
    \/ \E f \in SeriesPaths : Modify(f)

SpecSeries == InitSeries /\ [][NextSeries]_vars

(***************************************************************************)
(* Vocabulary of the properties.                                           *)
(***************************************************************************)
TarRun(r) == run[r].script = "tar_and_transfer"
SyncRun(r) == run[r].script \in SyncScripts
NightlyRun(r) == run[r].script = "nightly_transfer"
Done(r) == run[r].pc = "done"

\* the file's mtime lies in the run's window, both ends included
WithinWindow(r, f) ==
    /\ ~dt_lt(file_mtime(f), run[r].start_window)
    /\ ~dt_lt(run[r].end_window, file_mtime(f))

\* the files the scan of run r could stat and whose mtime lies in its window
Qualifying(r) ==
    {f \in DOMAIN fs \ run[r].stat_failed : WithinWindow(r, f)}

\* the manifest item refers to file f: it is f's raw item, or it is a bundle
\* item whose staged bundle holds f
References(item, f) ==
    \/ item.source = posixpath_join(GLOBUS_SOURCE_ROOT, os_path_relpath(f))
    \/ \E n \in DOMAIN staging :
          /\ item.source = posixpath_join(GLOBUS_STAGING_ROOT, n)
          /\ f \in staging[n].content

\* the number of items of a manifest that refer to file f
Coverage(manifest, f) ==
    Cardinality({i \in 1..Len(manifest) : References(manifest[i], f)})

(***************************************************************************)
(* C1: in a tar_and_transfer run in which no bundle creation fails, every  *)
(* file whose mtime lies in the window is referred to by exactly one item  *)
(* of the submitted manifest (its raw item, or the bundle that holds it).  *)
(* Stated as claimed; the bundle names of distinct groups can coincide     *)
(* (see C7), which leaves a file out of every bundle.                      *)
(***************************************************************************)
C1_ExactlyOneItem ==
    \A r \in Runs :
       (TarRun(r) /\ Done(r) /\ run[r].task /\ run[r].dropped = {})
          => \A f \in Qualifying(r) : Coverage(run[r].submitted, f) = 1

(***************************************************************************)
(* C2: the window predicate is inclusive at both ends in every scanner.    *)
(* After a scan, a file (a directory, in nightly_transfer) whose mtime was *)
(* read and equals start_window or end_window is selected, and one whose   *)
(* mtime is one microsecond before start_window or one microsecond after   *)
(* end_window is not selected: it is in no manifest item and in no bundle. *)
(***************************************************************************)
AtEdge(r, mtime) ==
    mtime = run[r].start_window \/ mtime = run[r].end_window

JustOutside(r, mtime) ==
    \/ mtime = minus_one_microsecond(run[r].start_window)
    \/ mtime = plus_one_microsecond(run[r].end_window)

\* the scan of run r selected file f
IsSelected(r, f) ==
    IF TarRun(r)
    THEN /\ f.dir \in DOMAIN run[r].modified_groups
         /\ f \in Range(run[r].modified_groups[f.dir])
    ELSE IF run[r].dry_run
    THEN <<"info", "[DRY RUN]", dry_run_line(run[r].script, f, file_mtime(f))>>
            \in run[r].log
    ELSE sync_item(f, file_mtime(f)) \in Range(run[r].transfer_data)

\* no manifest item of run r and no staged bundle refers to file f
InNoItemNoBundle(r, f) ==
    /\ \A item \in Range(run[r].transfer_data) :
          item.source # posixpath_join(GLOBUS_SOURCE_ROOT, os_path_relpath(f))
    /\ \A n \in DOMAIN staging : f \notin staging[n].content

C2_WindowInclusive ==
    \A r \in Runs :
       run[r].scanned =>
          /\ (TarRun(r) \/ SyncRun(r)) =>
                \A f \in DOMAIN fs \ run[r].stat_failed :
                   /\ AtEdge(r, file_mtime(f)) => IsSelected(r, f)
                   /\ JustOutside(r, file_mtime(f)) =>
                         ~IsSelected(r, f) /\ InNoItemNoBundle(r, f)
          /\ NightlyRun(r) =>
                \A d \in DOMAIN dirs \ run[r].stat_failed :
                   /\ AtEdge(r, dir_mtime(d)) =>
                         dir_item(d) \in Range(run[r].transfer_data)
                   /\ JustOutside(r, dir_mtime(d)) =>
                         dir_item(d) \notin Range(run[r].transfer_data)

\* a finished scan with a selected file at each end of the window and an
\* unselected file one microsecond outside it
C2_Witness ==
    \E r \in Runs :
       /\ run[r].scanned /\ Done(r) /\ run[r].task
       /\ run[r].stat_failed = {}
       /\ \E f, g, h \in DOMAIN fs :
             /\ file_mtime(f) = run[r].start_window /\ IsSelected(r, f)
             /\ file_mtime(g) = run[r].end_window /\ IsSelected(r, g)
             /\ f # g
             /\ JustOutside(r, file_mtime(h)) /\ ~IsSelected(r, h)

(***************************************************************************)
(* C3: a group is classified ARCHIVE exactly when its mean size (total     *)
(* bytes / file count) is strictly less than 52,428,800 bytes, and RAW     *)
(* otherwise: a mean equal to the threshold is RAW, a mean one byte below  *)
(* it is ARCHIVE.  The mean is below the integer threshold exactly when    *)
(* its integer part is.                                                    *)
(***************************************************************************)
C3_ThresholdStrict ==
    probe # <<>> /\ probe.decision # "none" =>
       /\ probe.decision = "ARCHIVE" <=> (probe.total \div probe.count) < 52428800
       /\ probe.decision \in {"ARCHIVE", "RAW"}
       /\ probe.total = probe.count * 52428800 => probe.decision = "RAW"
       /\ probe.total = probe.count * (52428800 - 1) => probe.decision = "ARCHIVE"

\* a group of several files whose mean equals the threshold is RAW
C3_Witness ==
    /\ probe # <<>>
    /\ probe.count > 1
    /\ probe.total = probe.count * 52428800
    /\ probe.decision = "RAW"

(***************************************************************************)
(* The outcome of a run, in the words of the run's state machine:          *)
(* SUBMITTED when submit_transfer returned a task; FAILED when main ended  *)
(* by an uncaught exception (exit status 1) or returned after              *)
(* logger.error; SKIPPED when main returned with neither.                  *)
(***************************************************************************)
ErrorLogged(r) == \E e \in run[r].log : e[1] = "error"

RunState(r) ==
    IF ~Done(r) THEN "RUNNING"
    ELSE IF run[r].task THEN "SUBMITTED"
    ELSE IF run[r].exit = "raised" \/ ErrorLogged(r) THEN "FAILED"
    ELSE "SKIPPED"

\* the groups of a tar_and_transfer run
Groups(r) == DOMAIN run[r].modified_groups

\* the loop over modified_groups has run to its end
LoopDone(r) ==
    /\ TarRun(r) /\ run[r].scanned
    /\ Groups(r) # {} /\ run[r].pending = {}
    /\ run[r].pc \in {"submit", "done"}

\* main took the tar branch for group d
Tarred(r, d) == <<"info", "Tarring", os_path_relpath_dir(d)>> \in run[r].log

\* the items main adds for group d when nothing fails
ItemsOf(r, d) ==
    IF Tarred(r, d)
    THEN LET base == tar_name_base(os_path_relpath_dir(d))
         IN <<tar_item(safe_name(base), base)>>
    ELSE raw_items(run[r].modified_groups[d], 1)

RECURSIVE ItemCount(_, _)
ItemCount(r, ds) ==
    IF ds = {} THEN 0
    ELSE LET d == CHOOSE x \in ds : TRUE
         IN Len(ItemsOf(r, d)) + ItemCount(r, ds \ {d})

\* the manifest holds the items of every group that was not dropped and
\* nothing else, one "Error creating tar" line was printed, and the manifest
\* is handed to the submitter
PartialFailureIsolated(r) ==
    /\ \A d \in Groups(r) \ run[r].dropped :
          Range(ItemsOf(r, d)) \subseteq Range(run[r].transfer_data)
    /\ Len(run[r].transfer_data) = ItemCount(r, Groups(r) \ run[r].dropped)
    /\ run[r].tar_errors = 1
    /\ Done(r) => /\ run[r].submit_calls = 1
                  /\ run[r].submitted = run[r].transfer_data
                  /\ RunState(r) = "FAILED" => run[r].exit = "raised"

(***************************************************************************)
(* C4, as claimed: if bundle creation fails for exactly one of N groups,   *)
(* the run still builds and submits a manifest with the items of the other *)
(* N-1 groups and none for the failed group, and reports one dropped       *)
(* group.  It fails for N = 1: nothing is queued and nothing is submitted. *)
(***************************************************************************)
C4_OneOfN ==
    \A r \in Runs :
       LoopDone(r) /\ Cardinality(run[r].dropped) = 1
          => PartialFailureIsolated(r)

(***************************************************************************)
(* C4, amended: the same for N >= 2 groups.                                *)
(***************************************************************************)
C4_OneOfSeveral ==
    \A r \in Runs :
       LoopDone(r) /\ Cardinality(run[r].dropped) = 1
                   /\ Cardinality(Groups(r)) >= 2
          => PartialFailureIsolated(r)

\* a submitted run of three groups of which one was dropped
C4_Witness ==
    \E r \in Runs :
       /\ LoopDone(r) /\ Done(r) /\ run[r].task
       /\ Cardinality(run[r].dropped) = 1
       /\ Cardinality(Groups(r)) = 3
       /\ Len(run[r].submitted) = 2

(***************************************************************************)
(* C5: with dry-run set, a run of a sync script adds no item to the        *)
(* transfer request, never calls the submitter and writes nothing to the   *)
(* staging area, while it selects and counts the same files as a run       *)
(* without dry-run over the same tree and window: in both, the files       *)
(* counted are the files whose mtime is read and lies in the window, and   *)
(* the pairs the dry run logs are the pairs the real run queues.           *)
(***************************************************************************)
DryRunLines(r) == {e \in run[r].log : e[2] = "[DRY RUN]"}

\* what a dry run logs for the item (g_source, g_dest) of file f
LineOf(r, f) ==
    IF run[r].script = "nightly_transfer_no_overwrite"
    THEN <<"info", "[DRY RUN]", <<os_path_relpath(f), new_filename(f, file_mtime(f))>> >>
    ELSE <<"info", "[DRY RUN]",
           <<sync_item(f, file_mtime(f)).source, sync_item(f, file_mtime(f)).dest>> >>

C5_DryRunNoEffect ==
    \A r \in Runs :
       SyncRun(r) =>
          /\ run[r].dry_run =>
                /\ run[r].transfer_data = <<>>
                /\ run[r].submit_calls = 0 /\ ~run[r].task
                /\ staging = <<>> /\ remote = {}
          /\ run[r].scanned =>
                /\ run[r].files_added = Cardinality(Qualifying(r))
                /\ run[r].dry_run =>
                      DryRunLines(r) = {LineOf(r, f) : f \in Qualifying(r)}
                /\ ~run[r].dry_run =>
                      /\ Range(run[r].transfer_data) =
                            {sync_item(f, file_mtime(f)) : f \in Qualifying(r)}
                      /\ Len(run[r].transfer_data) = run[r].files_added
                      /\ DryRunLines(r) = {}

\* a finished dry run that selected two files
C5_Witness ==
    \E r \in Runs :
       /\ SyncRun(r) /\ run[r].dry_run /\ Done(r)
       /\ run[r].files_added = 2
       /\ Cardinality(DryRunLines(r)) = 2
       /\ run[r].transfer_data = <<>>

(***************************************************************************)
(* C7, as claimed: within one run, two distinct groups never get the same  *)
(* staged bundle file name, and the staged file of each group whose bundle *)
(* was written holds exactly that group's files.  The code maps 'a/b' and  *)
(* 'a_b' (and '.' and 'root_files') to one name.                           *)
(***************************************************************************)
BundleName(d) == safe_name(tar_name_base(os_path_relpath_dir(d)))

\* the groups of run r whose bundle was written without error
Bundled(r) == {d \in Groups(r) \ run[r].pending : Tarred(r, d) /\ d \notin run[r].dropped}

C7_BundlesOneToOne ==
    \A r \in Runs :
       TarRun(r) =>
          \A d \in Bundled(r) :
             /\ \A e \in Bundled(r) : e # d => BundleName(e) # BundleName(d)
             /\ BundleName(d) \in DOMAIN staging
             /\ staging[BundleName(d)].content = Range(run[r].modified_groups[d])

(***************************************************************************)
(* C9: a run whose scan selects nothing ends SKIPPED: the submitter is not *)
(* called, nothing is staged, main returns without logging an error.  And  *)
(* the submitter is called only with a manifest of at least one item.      *)
(***************************************************************************)
\* nothing the scan of run r could stat lies in its window
NothingInWindow(r) ==
    IF NightlyRun(r)
    THEN \A d \in DOMAIN dirs \ run[r].stat_failed :
            dt_lt(dir_mtime(d), run[r].start_window) \/ dt_lt(run[r].end_window, dir_mtime(d))
    ELSE Qualifying(r) = {}

C9_EmptyIsSkipped ==
    \A r \in Runs :
       /\ (Done(r) /\ run[r].scanned /\ NothingInWindow(r)) =>
             /\ RunState(r) = "SKIPPED"
             /\ run[r].exit = "returned" /\ ~ErrorLogged(r)
             /\ run[r].submit_calls = 0
             /\ run[r].transfer_data = <<>>
             /\ staging = <<>>
       /\ run[r].submit_calls > 0 =>
             /\ Len(run[r].submitted) >= 1
             /\ run[r].submitted = run[r].transfer_data

\* a tar_and_transfer run over a tree whose files all lie outside the window
C9_Witness ==
    \E r \in Runs :
       /\ TarRun(r) /\ Done(r) /\ run[r].scanned
       /\ Cardinality(DOMAIN fs) >= 2 /\ run[r].stat_failed = {}
       /\ NothingInWindow(r)
       /\ RunState(r) = "SKIPPED"

(***************************************************************************)
(* C10, as claimed: a tar_and_transfer run that found files ends FAILED    *)
(* exactly when the submission fails or bundle creation fails for every    *)
(* group.  When every group is dropped the code logs "Nothing to           *)
(* transfer." at level info and returns: the outcome of a no-op.           *)
(***************************************************************************)
SubmissionFailed(r) == run[r].submit_calls > 0 /\ ~run[r].task

C10_FailedExactly ==
    \A r \in Runs :
       (LoopDone(r) /\ Done(r)) =>
          (RunState(r) = "FAILED"
             <=> (SubmissionFailed(r) \/ run[r].dropped = Groups(r)))

(***************************************************************************)
(* C6, as claimed: the renamed file is stem, "_", the mtime as             *)
(* YYYYMMDD_HHMMSS, extension; and two versions of one file whose mtimes   *)
(* fall in different seconds are never delivered to the same destination   *)
(* path, in one run or in a later one.  The name is made from the local    *)
(* wall-clock reading, which repeats when daylight saving time ends.       *)
(***************************************************************************)
\* n as six decimal digits
Pad6(n) ==
    IF n < 10 THEN "00000" \o ToString(n)
    ELSE IF n < 100 THEN "0000" \o ToString(n)
    ELSE IF n < 1000 THEN "000" \o ToString(n)
    ELSE IF n < 10000 THEN "00" \o ToString(n)
    ELSE IF n < 100000 THEN "0" \o ToString(n)
    ELSE ToString(n)

\* stem_YYYYMMDD_HHMMSS.txt for the wall-clock reading w
StampedName(stem, w) ==
    <<stem, "_", ToString(w.year * 10000 + w.month * 100 + w.day), "_",
      Pad6(w.hour * 10000 + w.minute * 100 + w.second), ".", "txt">>

\* two points in time in the same second
SameSecond(a, b) ==
    /\ a.fold = b.fold
    /\ [a.wall EXCEPT !.microsecond = 0] = [b.wall EXCEPT !.microsecond = 0]

C6_FormatOfName ==
    \A f \in DOMAIN fs :
       new_filename(f, file_mtime(f)) = StampedName(f.name[1], file_mtime(f))

C6_DistinctVersions ==
    \A a, b \in remote :
       (a.source = b.source /\ ~SameSecond(a.mtime_ts, b.mtime_ts)) => a.dest # b.dest

C6_RenameDistinct == C6_FormatOfName /\ C6_DistinctVersions

(***************************************************************************)
(* C8, as claimed: two runs with different windows that share STAGING_ROOT *)
(* never name the same staged bundle file, and a bundle one run has staged *)
(* and not yet submitted is not overwritten by the other.  The bundle name *)
(* is made from the relative path alone.                                   *)
(***************************************************************************)
\* the manifest items of run r that refer to a staged bundle
BundleItems(r) ==
    {item \in Range(run[r].transfer_data) : item.source[1] = GLOBUS_STAGING_ROOT[1]}

DifferentWindows(r1, r2) ==
    run[r1].start_window # run[r2].start_window \/ run[r1].end_window # run[r2].end_window

C8_NoCrossRunCollision ==
    \A r1, r2 \in Runs :
       (r1 # r2 /\ TarRun(r1) /\ TarRun(r2) /\ DifferentWindows(r1, r2)) =>
          /\ \A i \in BundleItems(r1), j \in BundleItems(r2) : i.source # j.source
          /\ ~Done(r1) =>
                \A d \in Bundled(r1) :
                   /\ BundleName(d) \in DOMAIN staging
                   /\ staging[BundleName(d)].writer = r1

(***************************************************************************)
(* C11, as claimed: when the call of submit_transfer fails, the run ends   *)
(* FAILED: it has no task, its exit status is non-zero (unlike a success   *)
(* and unlike a no-op), and the step in which the call fails leaves        *)
(* STAGING_ROOT as it was.  nightly_transfer.py catches TransferAPIError,  *)
(* logs it and returns: exit status 0.                                     *)
(***************************************************************************)
\* the exit status of the process: 1 after an uncaught exception, 0 when main
\* returns (no script calls sys.exit)
ExitStatus(r) == IF run[r].exit = "raised" THEN 1 ELSE 0

C11_FailedOutcome ==
    \A r \in Runs :
       (Done(r) /\ SubmissionFailed(r)) =>
          /\ RunState(r) = "FAILED"
          /\ ~run[r].task
          /\ ExitStatus(r) # 0

C11_StagingKept ==
    \A r \in Runs :
       (run[r].submit_calls' > run[r].submit_calls /\ ~run[r].task') =>
          staging' = staging

C11_SubmitFailureIsFatal == []C11_FailedOutcome /\ [][C11_StagingKept]_vars

(***************************************************************************)
(* C12, as claimed: a file that cannot be stat-ed is recorded as skipped,  *)
(* with its path, is referred to by no manifest item and is in no bundle,  *)
(* and does not abort the run: main ends by an exception only when the     *)
(* submission fails.  tar_and_transfer.py and                              *)
(* nightly_transfer_no_overwrite.py pass over the file without a record,   *)
(* and nothing catches the OSError of os.path.getsize.                     *)
(***************************************************************************)
\* the log of run r has a line that names file f as passed over
SkipRecorded(r, f) ==
    \E e \in run[r].log : e[1] \in {"warning", "error"} /\ e[3] = os_path_relpath(f)

C12_StatFailureSkipped ==
    \A r \in Runs :
       (TarRun(r) \/ SyncRun(r)) =>
          /\ run[r].scanned =>
                \A f \in run[r].stat_failed :
                   /\ SkipRecorded(r, f)
                   /\ Coverage(run[r].transfer_data, f) = 0
          /\ (Done(r) /\ run[r].exit = "raised") => run[r].submit_calls > 0

(***************************************************************************)
(* C13, as claimed: a run that finds its configuration file absent, or a   *)
(* section or key missing, ends with a non-zero exit status, and it scans  *)
(* nothing, stages no bundle and never calls submit_transfer.  Every       *)
(* script logs the error and returns from main: exit status 0.             *)
(***************************************************************************)
ConfigFailed(r) ==
    \E e \in run[r].log :
       /\ e[1] = "error"
       /\ e[2] \in {"Missing config", "Configuration file not found", "Missing config key"}

C13_NothingDone ==
    \A r \in Runs :
       (Done(r) /\ ConfigFailed(r)) =>
          /\ ~run[r].scanned
          /\ \A n \in DOMAIN staging : staging[n].writer # r
          /\ run[r].submit_calls = 0 /\ run[r].transfer_data = <<>>

C13_ConfigErrorStops ==
    /\ C13_NothingDone
    /\ \A r \in Runs : (Done(r) /\ ConfigFailed(r)) => ExitStatus(r) # 0

(***************************************************************************)
(* C14: the strategy is decided per directory group.  As claimed: the      *)
(* iteration of the loop for a group adds to the manifest either exactly   *)
(* one bundle item or exactly one raw item per file of the group, and it   *)
(* adds the raw items exactly when the group's total bytes are at least    *)
(* 52,428,800 times its file count.  A group whose bundle cannot be        *)
(* written adds no item at all; with that third case the statement holds.  *)
(***************************************************************************)
RECURSIVE SumOfSizes(_)
SumOfSizes(S) ==
    IF S = {} THEN 0
    ELSE LET f == CHOOSE f \in S : TRUE IN fs[f].size + SumOfSizes(S \ {f})

\* the group whose iteration a step of run r completes
GroupOfStep(r) == CHOOSE d \in run[r].pending : d \notin run[r].pending'

\* the items a step of run r adds to the manifest
AddedByStep(r) ==
    SubSeq(run[r].transfer_data', Len(run[r].transfer_data) + 1,
           Len(run[r].transfer_data'))

OneBundleItem(items) ==
    Len(items) = 1 /\ items[1].source[1] = GLOBUS_STAGING_ROOT[1]

OneRawItemPerFile(items, files) ==
    /\ Len(items) = Cardinality(files)
    /\ {items[i].source : i \in 1..Len(items)} =
          {posixpath_join(GLOBUS_SOURCE_ROOT, os_path_relpath(f)) : f \in files}

\* the mean size of the files is at or above 50 MiB
MeanAtOrAbove(files) == SumOfSizes(files) >= 52428800 * Cardinality(files)

C14_StepAsClaimed ==
    \A r \in Runs :
       (TarRun(r) /\ run[r].pending' # run[r].pending /\ run[r].pending # {}) =>
          LET files == Range(run[r].modified_groups[GroupOfStep(r)])
              items == AddedByStep(r)
          IN /\ OneBundleItem(items) \/ OneRawItemPerFile(items, files)
             /\ MeanAtOrAbove(files) <=> OneRawItemPerFile(items, files)

C14_StepPerGroup ==
    \A r \in Runs :
       (TarRun(r) /\ run[r].pending' # run[r].pending /\ run[r].pending # {}) =>
          LET files == Range(run[r].modified_groups[GroupOfStep(r)])
              items == AddedByStep(r)
          IN /\ MeanAtOrAbove(files) <=> OneRawItemPerFile(items, files)
             /\ ~MeanAtOrAbove(files) =>
                   \/ OneBundleItem(items)
                   \/ items = <<>> /\ run[r].tar_errors' = run[r].tar_errors + 1

C14_PerGroupAsClaimed == [][C14_StepAsClaimed]_vars

C14_PerGroup == [][C14_StepPerGroup]_vars

\* a group of a 10 KB file and a 200 MB file went raw, both files
C14_Witness ==
    \E r \in Runs :
       /\ LoopDone(r)
       /\ \E d \in Groups(r) :
             LET files == Range(run[r].modified_groups[d])
             IN /\ Cardinality(files) = 2
                /\ \E f \in files : fs[f].size = 10240
                /\ \E f \in files : fs[f].size = 209715200
                /\ \A f \in files : raw_item(f) \in Range(run[r].transfer_data)
                /\ BundleItems(r) = {}

(***************************************************************************)
(* C15, as claimed: within a tar_and_transfer run the phases SCANNING,     *)
(* CLASSIFYING, STAGING, MANIFEST_READY and the terminal states follow     *)
(* each other and none is entered again once a later one has begun;        *)
(* submit_transfer is called at most once, after the loop over the groups  *)
(* has ended, with the whole manifest.  The loop classifies and stages one *)
(* group after the other, so a group is classified after the staging of    *)
(* an earlier group.                                                       *)
(***************************************************************************)
\* how far main has come
Position(r) ==
    CASE run[r].pc \in {"off", "waiting", "config"} -> 0
      [] run[r].pc = "scan" -> 1
      [] run[r].pc = "prep" -> 2
      [] run[r].pc = "groups" -> 3
      [] run[r].pc = "submit" -> 4
      [] run[r].pc = "done" -> 5

\* create_tarball has been called for a group of run r
StagingBegun(r) == \E d \in Groups(r) \ run[r].pending : Tarred(r, d)

\* main never goes back; the one call of submit_transfer comes after the loop
\* and hands over the whole manifest
C15_StepForward ==
    \A r \in Runs :
       TarRun(r) =>
          /\ Position(r)' >= Position(r)
          /\ (run[r].scanned /\ run[r].pc # "scan") =>
                run[r].modified_groups' = run[r].modified_groups
          /\ run[r].submit_calls' # run[r].submit_calls =>
                /\ run[r].submit_calls = 0 /\ run[r].submit_calls' = 1
                /\ run[r].pc = "submit" /\ run[r].pending = {}
                /\ run[r].submitted' = run[r].transfer_data
                /\ run[r].transfer_data' = run[r].transfer_data

\* no group is classified once staging has begun
C15_StepClassifyFirst ==
    \A r \in Runs :
       (TarRun(r) /\ run[r].pending' # run[r].pending /\ run[r].pending # {}) =>
          ~StagingBegun(r)

C15_Forward == [][C15_StepForward]_vars

C15_PhasesForward == [][C15_StepForward /\ C15_StepClassifyFirst]_vars

\* a run of two or more groups, one of them tarred, has submitted its manifest
C15_Witness ==
    \E r \in Runs :
       /\ TarRun(r) /\ Done(r) /\ run[r].task
       /\ Cardinality(Groups(r)) >= 2 /\ StagingBegun(r)
       /\ run[r].submit_calls = 1
       /\ Len(run[r].submitted) >= 2

(***************************************************************************)
(* C16, as claimed: when a tar_and_transfer run has ended without a        *)
(* successful submission, STAGING_ROOT holds no file written by that run,  *)
(* complete or partly written.  The code removes nothing it has staged.    *)
(***************************************************************************)
\* the files of STAGING_ROOT that run r wrote last
StagedBy(r) == {n \in DOMAIN staging : staging[n].writer = r}

C16_NoOrphanedBundle ==
    \A r \in Runs :
       (TarRun(r) /\ Done(r) /\ ~run[r].task) => StagedBy(r) = {}

(***************************************************************************)
(* The windows on their own: the windows main derives from datetime.now()  *)
(* on a run date, on the next day and in the next month, and which of      *)
(* these runs select a given mtime.                                        *)
(***************************************************************************)
\* the run dates: around the ends of years, of months of 28, 29, 30 and 31
\* days, and the day the clocks go back
RunDates ==
    {Date(2023, 12, 31), Date(2024, 1, 1), Date(2023, 2, 28), Date(2023, 3, 1),
     Date(2024, 2, 28), Date(2024, 2, 29), Date(2024, 3, 1), Date(2024, 3, 31),
     Date(2024, 4, 30), Date(2024, 5, 1), Date(2024, 11, 3), Date(2024, 6, 15)}

\* the times of day of a run
RunTimes ==
    {time_min, time_max, [hour |-> 2, minute |-> 0, second |-> 0, microsecond |-> 0]}

\* datetime.now() one day later
next_day(now) ==
    datetime_combine(date_plus_one_day(date_of(now)),
                     [hour |-> now.hour, minute |-> now.minute,
                      second |-> now.second, microsecond |-> now.microsecond])

\* datetime.now() in the next month: on its first or on its last day
next_month(now, last) ==
    LET y == IF now.month = 12 THEN now.year + 1 ELSE now.year
        m == IF now.month = 12 THEN 1 ELSE now.month + 1
    IN DateTime(y, m, IF last THEN DaysInMonth(y, m) ELSE 1,
                now.hour, now.minute, now.second, now.microsecond)

\* the mtimes tried against two windows that follow each other
Edges(w1, w2) == Around(w1) \cup Around(w2)

WindowsOf(now, last) ==
    [yesterday |-> yesterday_window(now),
     yesterday_next |-> yesterday_window(next_day(now)),
     previous_month |-> previous_month_window(now),
     previous_month_next |-> previous_month_window(next_month(now, last)),
     current_month |-> current_month_window(now)]

\* which of two runs with windows w1 and w2 select a file modified at mtime
selected_by(w1, w2, mtime) ==
    <<in_window(w1[1], mtime, w1[2]), in_window(w2[1], mtime, w2[2])>>

InitWindows ==
    /\ fs = <<>> /\ dirs = <<>> /\ staging = <<>> /\ remote = {}
    /\ run = NoRuns
    /\ \E d \in RunDates, t \in RunTimes, last \in BOOLEAN :
          LET now == datetime_combine(d, t)
              w == WindowsOf(now, last)
          IN \E daily \in Edges(w.yesterday, w.yesterday_next),
                monthly \in Edges(w.previous_month, w.previous_month_next) :
                probe = [now |-> now, last |-> last, daily |-> daily,
                         monthly |-> monthly, derived |-> FALSE]

DeriveWindows ==
    /\ ~probe.derived
    /\ LET w == WindowsOf(probe.now, probe.last)
       IN probe' = [now |-> probe.now, last |-> probe.last,
                    daily |-> probe.daily, monthly |-> probe.monthly,
                    derived |-> TRUE, windows |-> w,
                    daily_runs |->
                       selected_by(w.yesterday, w.yesterday_next, probe.daily),
                    monthly_runs |->
                       selected_by(w.previous_month, w.previous_month_next,
                                   probe.monthly)]
    /\ UNCHANGED <<fs, dirs, staging, run, remote>>

SpecWindows == InitWindows /\ [][DeriveWindows]_vars

(***************************************************************************)
(* C17: the derived windows are non-empty; the "yesterday" windows of two  *)
(* consecutive days and the "previous month" windows of two consecutive    *)
(* months are disjoint and adjacent (the later starts one microsecond      *)
(* after the earlier ends); the current-month window starts one            *)
(* microsecond after the previous-month window ends; and an mtime between  *)
(* the start of the earlier and the end of the later window is selected by *)
(* exactly one of the two runs.                                            *)
(***************************************************************************)
NonEmpty(w) == ~dt_lt(w[2], w[1])

\* w2 starts one microsecond after w1 ends
Adjacent(w1, w2) ==
    /\ dt_lt(w1[2], w2[1])
    /\ plus_one_microsecond(w1[2]) = w2[1]

\* how many of the two runs selected the mtime
SelectedCount(runs) ==
    (IF runs[1] THEN 1 ELSE 0) + (IF runs[2] THEN 1 ELSE 0)

\* what the two runs should do with an mtime
ExactlyOneWithin(w1, w2, mtime, runs) ==
    IF dt_lt(mtime, w1[1]) \/ dt_lt(w2[2], mtime)
    THEN SelectedCount(runs) = 0
    ELSE SelectedCount(runs) = 1

C17_WindowsTile ==
    probe # <<>> /\ "derived" \in DOMAIN probe /\ probe.derived =>
       LET w == probe.windows
       IN /\ NonEmpty(w.yesterday) /\ NonEmpty(w.yesterday_next)
          /\ NonEmpty(w.previous_month) /\ NonEmpty(w.previous_month_next)
          /\ NonEmpty(w.current_month)
          /\ Adjacent(w.yesterday, w.yesterday_next)
          /\ Adjacent(w.previous_month, w.previous_month_next)
          /\ Adjacent(w.previous_month, <<w.current_month[1], w.current_month[1]>>)
          /\ ExactlyOneWithin(w.yesterday, w.yesterday_next,
                              probe.daily, probe.daily_runs)
          /\ ExactlyOneWithin(w.previous_month, w.previous_month_next,
                              probe.monthly, probe.monthly_runs)

\* 1 March 2024: a file modified in the last microsecond of the leap day is
\* taken by that day's run and not by the next
C17_Witness ==
    /\ probe # <<>> /\ "derived" \in DOMAIN probe /\ probe.derived
    /\ date_of(probe.now) = Date(2024, 3, 1)
    /\ probe.daily = DateTime(2024, 2, 29, 23, 59, 59, 999999)
    /\ probe.daily_runs = <<TRUE, FALSE>>
    /\ probe.windows.yesterday_next[1] = DateTime(2024, 3, 1, 0, 0, 0, 0)
    /\ probe.windows.previous_month[1] = DateTime(2024, 2, 1, 0, 0, 0, 0)

====
